---- MODULE Spec2Model ----
(***************************************************************************)
(* Presence-transition notification policy of src/discord_bot.py:          *)
(* the two gateway event handlers on_member_update / on_presence_update,   *)
(* the DM fan-out send_dm_notifications, the slash commands, the settings  *)
(* file, on_ready and the periodic_update loop.                            *)
(*                                                                         *)
(* The gateway client's cache (guild roster, member status, member roles,  *)
(* guild roles) is the environment: an event updates the cached member and *)
(* then runs the handler with the snapshot before and the member after.    *)
(* A handler runs without suspension up to the first `await               *)
(* notify_member.send(...)`; every delivery attempt is a step of its own,  *)
(* so other events and commands interleave with a fan-out in flight.       *)
(*                                                                         *)
(* Spec: events, deliveries and changes of the target role, from a first   *)
(* run.  EventsSpec: on_ready and runs of one event more, under a target   *)
(* role read from the settings file.  BothHandlersSpec: the same, with a   *)
(* client that tells both handlers of one change.  MeanwhileSpec: role and *)
(* configuration changes while a fan-out is in flight.  CommandSpec: the   *)
(* commands, on_ready and restarts.                                        *)
(***************************************************************************)
EXTENDS Integers, Sequences, FiniteSets, TLC

\* ---------------------------------------------------------------- bounds
\* events (member/presence updates) handled in one behaviour
MaxEvents == 1
\* send_dm_notifications coroutines suspended on a delivery at the same time
MaxInFlight == 1

\* ------------------------------------------------------- the environment
None == "None"

Guilds == {"g1"}

\* guild.members, in cache order
guild_members(g) ==
  IF g = "g1" THEN <<"u1", "u2", "u3", "b1">> ELSE <<>>

Members == {"u1", "u2", "u3", "b1"}

\* member.guild.id
guild_of(m) == "g1"

\* member.bot
bot(m) == m = "b1"

\* role ids, and the guild each role was created in
Roles == {"r1", "r2"}

role_guild(r) == "g1"

\* discord.Status
Status == {"online", "idle", "dnd", "offline", "invisible"}

VARIABLES
  target_roles,           \* self.target_roles: guild id -> role id (a dict)
  notification_channels,  \* self.notification_channels: guild id -> channel id
  settings_file,          \* contents of bot_settings.json
  previous_online,        \* self.previous_online: guild id -> set of member ids
  guild_roles,            \* role ids the guilds' caches resolve (guild.get_role)
  status,                 \* member.status of every cached member
  member_roles,           \* role ids held by every cached member
  fanouts,                \* send_dm_notifications coroutines in flight
  lastEvent,              \* the event handled last and what the handler did
  lastReport,             \* the fan-out finished last ("DM notification summary")
  response,               \* the command run last, by whom, and its reply
  lastSend,               \* the message sent last to a channel or a user by a
                          \* command or by periodic_update
  nEvents                 \* events handled so far

vars == <<target_roles, notification_channels, settings_file, previous_online,
          guild_roles, status, member_roles, fanouts, lastEvent, lastReport,
          response, lastSend, nEvents>>

config == <<target_roles, notification_channels, settings_file, previous_online>>
cache == <<guild_roles, status, member_roles>>

\* the elements of a list
Range(q) == {q[i] : i \in 1..Len(q)}

\* the empty dict
EmptyDict == [g \in {} |-> None]

\* d with d[k] = v (dict assignment)
DictSet(d, k, v) == [x \in (DOMAIN d) \cup {k} |-> IF x = k THEN v ELSE d[x]]

\* (variant: the key is not deleted)
DictDel_keeps(d, k) == d

\* d after `del d[k]`
DictDel(d, k) == [x \in (DOMAIN d) \ {k} |-> d[x]]

\* ------------------------------------------------------------- settings
\* json.dump writes an int dict key as a string; load_settings converts it
\* back with int(k)
json_key(k) == <<"str", k>>

int_key(k) == k[2]

json_dict(d) == [k \in {json_key(x) : x \in DOMAIN d} |-> d[int_key(k)]]

int_dict(d) == [x \in {int_key(k) : k \in DOMAIN d} |-> d[json_key(x)]]

\* bot_settings.json does not exist
NoFile == [exists |-> FALSE, notification_channels |-> EmptyDict, target_roles |-> EmptyDict]

\* save_settings: the file holds both maps
save_settings(channels, roles) ==
  [exists |-> TRUE, notification_channels |-> json_dict(channels),
   target_roles |-> json_dict(roles)]

\* load_settings: the maps read from the file; the defaults of __init__ when
\* there is no file
load_notification_channels(file) ==
  IF ~file.exists THEN EmptyDict ELSE int_dict(file.notification_channels)

load_target_roles(file) ==
  IF ~file.exists THEN EmptyDict ELSE int_dict(file.target_roles)

\* ------------------------------------------------------- decision logic
\* was_online / is_online of the handlers
\* (variant: `invisible` is forgotten in was_online)
was_online_ignores_invisible(before_status) ==
  before_status # "offline"

\* (variant: only `online` itself counts as having been online)
was_online_only_online(before_status) ==
  before_status = "online"

was_online(before_status) ==
  before_status # "offline" /\ before_status # "invisible"

\* (variant: `invisible` is forgotten in is_online)
is_online_ignores_invisible(after_status) ==
  after_status # "offline"

is_online(after_status) ==
  after_status # "offline" /\ after_status # "invisible"

\* (variant: the role id is used without resolving it in the guild)
get_role_unresolved(g, role_id, existing) == role_id

\* guild.get_role(role_id): the role, or None
get_role(g, role_id, existing) ==
  IF role_id \in existing /\ role_guild(role_id) = g THEN role_id ELSE None

\* (variant: on_member_update without its `before.status == after.status` check)
on_member_update_no_status_check(before_status, after_status, is_bot, roles_after, g, cfg, existing) ==
  IF is_bot THEN "SkipBot"
  ELSE IF g \notin DOMAIN cfg THEN "NoTargetRole"
  ELSE IF get_role(g, cfg[g], existing) = None THEN "RoleNotFound"
  ELSE IF get_role(g, cfg[g], existing) \notin roles_after THEN "LacksRole"
  ELSE IF ~was_online(before_status) /\ is_online(after_status) THEN "Notify"
  ELSE IF was_online(before_status) /\ ~is_online(after_status) THEN "LogOnly"
  ELSE "NoAction"

\* (variant: on_member_update without its `target_role not in after.roles` check)
on_member_update_any_role(before_status, after_status, is_bot, roles_after, g, cfg, existing) ==
  IF before_status = after_status THEN "NoStatusChange"
  ELSE IF is_bot THEN "SkipBot"
  ELSE IF g \notin DOMAIN cfg THEN "NoTargetRole"
  ELSE IF get_role(g, cfg[g], existing) = None THEN "RoleNotFound"
  ELSE IF ~was_online(before_status) /\ is_online(after_status) THEN "Notify"
  ELSE IF was_online(before_status) /\ ~is_online(after_status) THEN "LogOnly"
  ELSE "NoAction"

\* What on_member_update does with an event, from the first check to the
\* last branch.  roles_after are the role ids of `after`.
on_member_update_outcome(before_status, after_status, is_bot, roles_after, g, cfg, existing) ==
  IF before_status = after_status THEN "NoStatusChange"
  ELSE IF is_bot THEN "SkipBot"
  ELSE IF g \notin DOMAIN cfg THEN "NoTargetRole"
  ELSE IF get_role(g, cfg[g], existing) = None THEN "RoleNotFound"
  ELSE IF get_role(g, cfg[g], existing) \notin roles_after THEN "LacksRole"
  ELSE IF ~was_online(before_status) /\ is_online(after_status) THEN "Notify"
  ELSE IF was_online(before_status) /\ ~is_online(after_status) THEN "LogOnly"
  ELSE "NoAction"

\* (variant: on_presence_update without its `after.bot` check)
on_presence_update_no_bot_check(before_status, after_status, is_bot, roles_after, g, cfg, existing) ==
  IF before_status = after_status THEN "NoStatusChange"
  ELSE IF g \notin DOMAIN cfg THEN "NoTargetRole"
  ELSE IF get_role(g, cfg[g], existing) = None THEN "RoleNotFound"
  ELSE IF get_role(g, cfg[g], existing) \notin roles_after THEN "LacksRole"
  ELSE IF ~was_online(before_status) /\ is_online(after_status) THEN "Notify"
  ELSE IF was_online(before_status) /\ ~is_online(after_status) THEN "LogOnly"
  ELSE "NoAction"

\* (variant: on_presence_update notifying in its went-offline branch too)
on_presence_update_notifies_offline(before_status, after_status, is_bot, roles_after, g, cfg, existing) ==
  IF before_status = after_status THEN "NoStatusChange"
  ELSE IF is_bot THEN "SkipBot"
  ELSE IF g \notin DOMAIN cfg THEN "NoTargetRole"
  ELSE IF get_role(g, cfg[g], existing) = None THEN "RoleNotFound"
  ELSE IF get_role(g, cfg[g], existing) \notin roles_after THEN "LacksRole"
  ELSE IF ~was_online(before_status) /\ is_online(after_status) THEN "Notify"
  ELSE IF was_online(before_status) /\ ~is_online(after_status) THEN "Notify"
  ELSE "NoAction"

\* (variant: on_presence_update notifying on every change to an online status)
on_presence_update_any_online(before_status, after_status, is_bot, roles_after, g, cfg, existing) ==
  IF before_status = after_status THEN "NoStatusChange"
  ELSE IF is_bot THEN "SkipBot"
  ELSE IF g \notin DOMAIN cfg THEN "NoTargetRole"
  ELSE IF get_role(g, cfg[g], existing) = None THEN "RoleNotFound"
  ELSE IF get_role(g, cfg[g], existing) \notin roles_after THEN "LacksRole"
  ELSE IF is_online(after_status) THEN "Notify"
  ELSE IF was_online(before_status) /\ ~is_online(after_status) THEN "LogOnly"
  ELSE "NoAction"

\* The same for on_presence_update (the code is written twice).
on_presence_update_outcome(before_status, after_status, is_bot, roles_after, g, cfg, existing) ==
  IF before_status = after_status THEN "NoStatusChange"
  ELSE IF is_bot THEN "SkipBot"
  ELSE IF g \notin DOMAIN cfg THEN "NoTargetRole"
  ELSE IF get_role(g, cfg[g], existing) = None THEN "RoleNotFound"
  ELSE IF get_role(g, cfg[g], existing) \notin roles_after THEN "LacksRole"
  ELSE IF ~was_online(before_status) /\ is_online(after_status) THEN "Notify"
  ELSE IF was_online(before_status) /\ ~is_online(after_status) THEN "LogOnly"
  ELSE "NoAction"

\* role.members: the guild's members holding the role, in guild.members order
role_members(role, roles_of) ==
  SelectSeq(guild_members(role_guild(role)), LAMBDA m : role \in roles_of[m])

\* (variant: the member who came online is not left out)
members_to_notify_with_self(member, target_role, roles_of) ==
  SelectSeq(role_members(target_role, roles_of), LAMBDA m : ~bot(m))

\* (variant: `m != member or not m.bot` for `and`)
members_to_notify_or(member, target_role, roles_of) ==
  SelectSeq(role_members(target_role, roles_of), LAMBDA m : m # member \/ ~bot(m))

\* (variant: bots holding the role are not left out)
members_to_notify_with_bots(member, target_role, roles_of) ==
  SelectSeq(role_members(target_role, roles_of), LAMBDA m : m # member)

\* members_to_notify of send_dm_notifications
members_to_notify(member, target_role, roles_of) ==
  SelectSeq(role_members(target_role, roles_of), LAMBDA m : m # member /\ ~bot(m))

\* (variant: `invisible` is forgotten in get_online_members)
get_online_members_with_invisible(g, status_of) ==
  SelectSeq(guild_members(g), LAMBDA m : ~bot(m) /\ status_of[m] # "offline")

\* get_online_members(guild): the members appended by the loop, in
\* guild.members order
get_online_members(g, status_of) ==
  SelectSeq(guild_members(g),
            LAMBDA m : ~bot(m) /\ status_of[m] # "offline"
                               /\ status_of[m] # "invisible")

\* status_groups of online_command and send_online_summary: the keys, in
\* dict order
status_groups == <<"online", "idle", "dnd">>

\* status_groups[status] once the loop over online_members has filled it
status_group(online_members, s, status_of) ==
  SelectSeq(online_members, LAMBDA m : status_of[m] = s)

\* the names a status field shows: all members of the group, or the first
\* `shown` of them followed by "...and N more"
member_list(members, shown) ==
  IF Len(members) <= shown THEN members ELSE SubSeq(members, 1, shown)

\* the names in the embed, field after field
listing(online_members, status_of, shown) ==
  member_list(status_group(online_members, status_groups[1], status_of), shown)
    \o member_list(status_group(online_members, status_groups[2], status_of), shown)
    \o member_list(status_group(online_members, status_groups[3], status_of), shown)

\* the embed title online_command picks by the number of online members
online_title(n) ==
  IF n = 0 THEN "The Digital Realm is Quiet..."
  ELSE IF n = 1 THEN "A Lone Digital Warrior!"
  ELSE IF n <= 3 THEN "Intimate Gathering Mode!"
  ELSE IF n <= 8 THEN "Party Time Activated!"
  ELSE IF n <= 15 THEN "HIGH ENERGY DETECTED!"
  ELSE "LEGENDARY ACTIVITY LEVEL!"

\* the embed title send_online_summary picks
summary_title(n) ==
  IF n = 0 THEN "The Server is Sleeping..."
  ELSE IF n = 1 THEN "A Lone Warrior Appears!"
  ELSE IF n <= 3 THEN "A Small Gathering!"
  ELSE IF n <= 8 THEN "Party Mode Activated!"
  ELSE IF n <= 15 THEN "Server Energy Rising!"
  ELSE "MAXIMUM ACTIVITY DETECTED!"

\* --------------------------------------------------------------- state
\* lastEvent: the inputs of the handler (the two snapshots, the guild's
\* target role id and whether a role of that id existed when it ran) and what
\* it did: the branch it ended in, its calls of send_dm_notifications and the
\* recipient list of the call
NoEvent ==
  [id |-> 0, handler |-> None, member |-> None, before |-> None, after |-> None,
   roles_before |-> {}, roles_after |-> {}, target |-> None, target_exists |-> FALSE,
   outcome |-> None, calls |-> <<>>, recipients |-> <<>>]

\* outcomes of `await notify_member.send(embed=embed)`: it returns, or raises
\* discord.Forbidden, another discord.HTTPException, or any other Exception
SendOutcomes == {"Delivered", "Forbidden", "HTTPException", "Exception"}

\* no fan-out has finished yet
NoReport ==
  [event |-> 0, handler |-> None, member |-> None, role |-> None, before |-> None,
   after |-> None, todo |-> <<>>, attempts |-> <<>>, successful_dms |-> 0,
   failed_dms |-> 0]

\* the rosters the gateway may report at start-up
InitStatus ==
  {[m \in Members |->
      IF m = "u1" THEN s
      ELSE IF m = "u2" THEN "online"
      ELSE IF m = "u3" THEN "invisible"
      ELSE "offline"] : s \in {"offline", "idle"}}

\* everybody holds r1; r2 is held by u3 and the bot
InitRoles ==
  [m \in Members |-> IF m \in {"u3", "b1"} THEN {"r1", "r2"} ELSE {"r1"}]

\* no command has been run yet
NoResponse ==
  [guild |-> None, command |-> None, permitted |-> FALSE, title |-> None,
   listed |-> <<>>]

\* The reply to a command run in guild g (interaction.response.send_message
\* or interaction.followup.send): the title of its embed, or its text in a
\* word.  permitted: whether the invoking user holds the permission the
\* command asks for (Administrator or Manage Roles), or either of them for a
\* command that asks for none.
reply(g, command, permitted, title) ==
  [guild |-> g, command |-> command, permitted |-> permitted, title |-> title,
   listed |-> <<>>]

\* nothing has been sent yet
NoSend == [to |-> None, title |-> None, listed |-> <<>>]

\* bot_settings.json at start-up: a first run, without the file
InitFiles == {NoFile}

\* OnlineMemberTracker.__init__
Init ==
  /\ settings_file \in InitFiles
  /\ notification_channels = load_notification_channels(settings_file)
  /\ target_roles = load_target_roles(settings_file)
  /\ previous_online = EmptyDict
  /\ guild_roles = Roles
  /\ status \in InitStatus
  /\ member_roles = InitRoles
  /\ fanouts = <<>>
  /\ lastEvent = NoEvent
  /\ lastReport = NoReport
  /\ response = NoResponse
  /\ lastSend = NoSend
  /\ nEvents = 0

\* ------------------------------------------------------------- fan-out
\* send_dm_notifications(member, target_role) up to its first await: the
\* recipient list is computed and the counters start at zero
new_fanout(event, handler, member, target_role, before_status, after_status, roles_of) ==
  [event |-> event, handler |-> handler, member |-> member, role |-> target_role,
   before |-> before_status, after |-> after_status,
   todo |-> members_to_notify(member, target_role, roles_of),
   attempts |-> <<>>, successful_dms |-> 0, failed_dms |-> 0]

\* (variant: an exception of a send leaves the loop)
attempt_stops_on_failure(f, send_outcome) ==
  [f EXCEPT !.todo = IF send_outcome = "Delivered" THEN Tail(@) ELSE <<>>,
            !.attempts = Append(@, <<Head(f.todo), send_outcome>>),
            !.successful_dms = IF send_outcome = "Delivered" THEN @ + 1 ELSE @,
            !.failed_dms = IF send_outcome = "Delivered" THEN @ ELSE @ + 1]

\* (variant: the `except discord.Forbidden` branch counts nothing)
attempt_forbidden_uncounted(f, send_outcome) ==
  [f EXCEPT !.todo = Tail(@),
            !.attempts = Append(@, <<Head(f.todo), send_outcome>>),
            !.successful_dms = IF send_outcome = "Delivered" THEN @ + 1 ELSE @,
            !.failed_dms = IF send_outcome \in {"Delivered", "Forbidden"} THEN @ ELSE @ + 1]

\* (variant: the loop reading role.members again at each iteration)
attempt_recomputes(f, send_outcome) ==
  LET done == Append(f.attempts, <<Head(f.todo), send_outcome>>) IN
  [f EXCEPT !.todo = SelectSeq(members_to_notify(f.member, f.role, member_roles),
                               LAMBDA m : \A k \in 1..Len(done) : done[k][1] # m),
            !.attempts = done,
            !.successful_dms = IF send_outcome = "Delivered" THEN @ + 1 ELSE @,
            !.failed_dms = IF send_outcome = "Delivered" THEN @ ELSE @ + 1]

\* one iteration of `for notify_member in members_to_notify`
attempt(f, send_outcome) ==
  [f EXCEPT !.todo = Tail(@),
            !.attempts = Append(@, <<Head(f.todo), send_outcome>>),
            !.successful_dms = IF send_outcome = "Delivered" THEN @ + 1 ELSE @,
            !.failed_dms = IF send_outcome = "Delivered" THEN @ ELSE @ + 1]

RemoveAt(q, i) == [j \in 1..(Len(q) - 1) |-> IF j < i THEN q[j] ELSE q[j + 1]]

\* (variant: the loop giving up once the guild's target role is another)
Deliver_rechecks_target(i, send_outcome) ==
  /\ i \in 1..Len(fanouts)
  /\ LET f == attempt(fanouts[i], send_outcome)
         g == guild_of(f.member)
         still == g \in DOMAIN target_roles /\ target_roles[g] = f.role
     IN IF f.todo = <<>> \/ ~still
        THEN /\ fanouts' = RemoveAt(fanouts, i)
             /\ lastReport' = f
        ELSE /\ fanouts' = [fanouts EXCEPT ![i] = f]
             /\ UNCHANGED lastReport
  /\ UNCHANGED <<config, cache, lastEvent, response, lastSend, nEvents>>

\* The send awaited by fan-out i returns or raises; the loop goes on to the
\* next recipient, or logs the summary and returns after the last one.
Deliver(i, send_outcome) ==
  /\ i \in 1..Len(fanouts)
  /\ LET f == attempt(fanouts[i], send_outcome) IN
       IF f.todo = <<>>
       THEN /\ fanouts' = RemoveAt(fanouts, i)
            /\ lastReport' = f
       ELSE /\ fanouts' = [fanouts EXCEPT ![i] = f]
            /\ UNCHANGED lastReport
  /\ UNCHANGED <<config, cache, lastEvent, response, lastSend, nEvents>>

\* ------------------------------------------------------ event handlers
\* (variant: after a fan-out with failed deliveries the handler notifies no more)
Handle_stops_after_failure(handler, member, before_status, after_status, roles_before, roles_of, outcome) ==
  LET g == guild_of(member)
      target == IF g \in DOMAIN target_roles THEN target_roles[g] ELSE None
      f == new_fanout(nEvents + 1, handler, member, target, before_status,
                      after_status, roles_of)
      notify == outcome = "Notify" /\ lastReport.failed_dms = 0
  IN /\ notify /\ f.todo # <<>> => Len(fanouts) < MaxInFlight
     /\ fanouts' = IF notify /\ f.todo # <<>> THEN Append(fanouts, f) ELSE fanouts
     /\ lastEvent' =
          [id |-> nEvents + 1, handler |-> handler, member |-> member,
           before |-> before_status, after |-> after_status,
           roles_before |-> roles_before, roles_after |-> roles_of[member],
           target |-> target, target_exists |-> target \in guild_roles,
           outcome |-> outcome,
           calls |-> IF notify THEN <<[member |-> f.member, role |-> f.role]>> ELSE <<>>,
           recipients |-> IF notify THEN f.todo ELSE <<>>]
     /\ nEvents' = nEvents + 1
     /\ UNCHANGED <<config, guild_roles, lastReport, response, lastSend>>

\* (variant: the handler keeping previous_online up to date with the event)
Handle_tracks_previous_online(handler, member, before_status, after_status, roles_before, roles_of, outcome) ==
  LET g == guild_of(member)
      target == IF g \in DOMAIN target_roles THEN target_roles[g] ELSE None
      f == new_fanout(nEvents + 1, handler, member, target, before_status,
                      after_status, roles_of)
      notify == outcome = "Notify"
      tracked == IF g \in DOMAIN previous_online THEN previous_online[g] ELSE {}
  IN /\ notify /\ f.todo # <<>> => Len(fanouts) < MaxInFlight
     /\ fanouts' = IF notify /\ f.todo # <<>> THEN Append(fanouts, f) ELSE fanouts
     /\ lastEvent' =
          [id |-> nEvents + 1, handler |-> handler, member |-> member,
           before |-> before_status, after |-> after_status,
           roles_before |-> roles_before, roles_after |-> roles_of[member],
           target |-> target, target_exists |-> target \in guild_roles,
           outcome |-> outcome,
           calls |-> IF notify THEN <<[member |-> f.member, role |-> f.role]>> ELSE <<>>,
           recipients |-> IF notify THEN f.todo ELSE <<>>]
     /\ nEvents' = nEvents + 1
     /\ previous_online' =
          IF outcome \in {"Notify", "LogOnly"}
          THEN DictSet(previous_online, g,
                       IF outcome = "Notify" THEN tracked \cup {member}
                       ELSE tracked \ {member})
          ELSE previous_online
     /\ UNCHANGED <<target_roles, notification_channels, settings_file,
                    guild_roles, lastReport, response, lastSend>>

\* The handler has decided `outcome` for the event (member, before -> after):
\* on "Notify" it calls send_dm_notifications once, which returns at once when
\* there is nobody to notify and suspends on its first send otherwise.
Handle(handler, member, before_status, after_status, roles_before, roles_of, outcome) ==
  LET g == guild_of(member)
      target == IF g \in DOMAIN target_roles THEN target_roles[g] ELSE None
      f == new_fanout(nEvents + 1, handler, member, target, before_status,
                      after_status, roles_of)
      notify == outcome = "Notify"
  IN /\ notify /\ f.todo # <<>> => Len(fanouts) < MaxInFlight
     /\ fanouts' = IF notify /\ f.todo # <<>> THEN Append(fanouts, f) ELSE fanouts
     /\ lastEvent' =
          [id |-> nEvents + 1, handler |-> handler, member |-> member,
           before |-> before_status, after |-> after_status,
           roles_before |-> roles_before, roles_after |-> roles_of[member],
           target |-> target, target_exists |-> target \in guild_roles,
           outcome |-> outcome,
           calls |-> IF notify THEN <<[member |-> f.member, role |-> f.role]>> ELSE <<>>,
           recipients |-> IF notify THEN f.todo ELSE <<>>]
     /\ nEvents' = nEvents + 1
     /\ UNCHANGED <<config, guild_roles, lastReport, response, lastSend>>

\* roles the gateway reports changes of: they are granted, taken away and
\* deleted (the other roles and their holders stay as they are at start-up)
ChangingRoles == {"r1"}

\* role sets a member update can bring: unchanged, or one role granted or
\* taken away
RoleUpdates(m) ==
  {member_roles[m]}
    \cup {member_roles[m] \cup {r} : r \in guild_roles \cap ChangingRoles}
    \cup {member_roles[m] \ {r} : r \in member_roles[m] \cap ChangingRoles}

\* (variant: on_member_update looking for the target role in before.roles)
on_member_update_before_roles(m, s, rs) ==
  /\ rs \in RoleUpdates(m)
  /\ status' = [status EXCEPT ![m] = s]
  /\ member_roles' = [member_roles EXCEPT ![m] = rs]
  /\ Handle("on_member_update", m, status[m], s, member_roles[m], member_roles',
            on_member_update_outcome(status[m], s, bot(m), member_roles[m],
                                     guild_of(m), target_roles, guild_roles))

\* The gateway reports a member update: the cached member takes the new
\* roles (and status), then on_member_update(before, after) runs.
on_member_update(m, s, rs) ==
  /\ rs \in RoleUpdates(m)
  /\ status' = [status EXCEPT ![m] = s]
  /\ member_roles' = [member_roles EXCEPT ![m] = rs]
  /\ Handle("on_member_update", m, status[m], s, member_roles[m], member_roles',
            on_member_update_outcome(status[m], s, bot(m), rs, guild_of(m),
                                     target_roles, guild_roles))

\* The gateway reports a presence update: the cached member takes the new
\* status, then on_presence_update(before, after) runs.
on_presence_update(m, s) ==
  /\ status' = [status EXCEPT ![m] = s]
  /\ UNCHANGED member_roles
  /\ Handle("on_presence_update", m, status[m], s, member_roles[m], member_roles,
            on_presence_update_outcome(status[m], s, bot(m), member_roles[m],
                                       guild_of(m), target_roles, guild_roles))

\* ------------------------------------------------------------ commands
\* /setrole role: in guild g by a user with or without Manage Roles
setrole_command(g, role, manage_roles) ==
  /\ role \in guild_roles /\ role_guild(role) = g
  /\ IF ~manage_roles
     THEN /\ response' = reply(g, "setrole", FALSE, "Permission Denied")
          /\ UNCHANGED <<target_roles, settings_file>>
     ELSE /\ target_roles' = DictSet(target_roles, g, role)
          /\ settings_file' = save_settings(notification_channels, target_roles')
          /\ response' = reply(g, "setrole", TRUE, "Target Role Set")
  /\ UNCHANGED <<notification_channels, previous_online, cache, fanouts,
                 lastEvent, lastReport, lastSend, nEvents>>

\* /removerole in guild g by a user with or without Manage Roles
removerole_command(g, manage_roles) ==
  /\ IF ~manage_roles
     THEN /\ response' = reply(g, "removerole", FALSE, "Permission Denied")
          /\ UNCHANGED <<target_roles, settings_file>>
     ELSE IF g \notin DOMAIN target_roles
     THEN /\ response' = reply(g, "removerole", TRUE, "No Role Set")
          /\ UNCHANGED <<target_roles, settings_file>>
     ELSE /\ target_roles' = DictDel(target_roles, g)
          /\ settings_file' = save_settings(notification_channels, target_roles')
          /\ response' = reply(g, "removerole", TRUE, "Role Filter Removed")
  /\ UNCHANGED <<notification_channels, previous_online, cache, fanouts,
                 lastEvent, lastReport, lastSend, nEvents>>

\* text channels of the guilds
Channels == {"c1", "c2"}

\* what the event handlers and fan-outs have left
events == <<fanouts, lastEvent, lastReport, nEvents>>

\* (variant: /setchannel without the check of the bot's send_messages permission)
setchannel_command_unchecked_send(g, channel, administrator, send_messages, sent) ==
  /\ channel \in Channels
  /\ IF ~administrator
     THEN /\ response' = reply(g, "setchannel", FALSE, "Administrator Needed")
          /\ UNCHANGED <<notification_channels, settings_file, lastSend>>
     ELSE /\ notification_channels' = DictSet(notification_channels, g, channel)
          /\ settings_file' = save_settings(notification_channels', target_roles)
          /\ response' = reply(g, "setchannel", TRUE, "Notification Channel Set")
          /\ lastSend' = IF sent
                         THEN [to |-> channel, title |-> "Bot Setup Complete",
                               listed |-> <<>>]
                         ELSE lastSend
  /\ UNCHANGED <<target_roles, previous_online, cache, events>>

\* /setchannel channel: in guild g; send_messages: whether the bot may send in
\* the channel; sent: whether the "Bot Setup Complete" message got through
setchannel_command(g, channel, administrator, send_messages, sent) ==
  /\ channel \in Channels
  /\ IF ~administrator
     THEN /\ response' = reply(g, "setchannel", FALSE, "Administrator Needed")
          /\ UNCHANGED <<notification_channels, settings_file, lastSend>>
     ELSE IF ~send_messages
     THEN /\ response' = reply(g, "setchannel", TRUE, "Cannot Send In Channel")
          /\ UNCHANGED <<notification_channels, settings_file, lastSend>>
     ELSE /\ notification_channels' = DictSet(notification_channels, g, channel)
          /\ settings_file' = save_settings(notification_channels', target_roles)
          /\ response' = reply(g, "setchannel", TRUE, "Notification Channel Set")
          /\ lastSend' = IF sent
                         THEN [to |-> channel, title |-> "Bot Setup Complete",
                               listed |-> <<>>]
                         ELSE lastSend
  /\ UNCHANGED <<target_roles, previous_online, cache, events>>

\* (variant: /removechannel without its administrator check)
removechannel_command_unchecked(g, administrator) ==
  /\ IF g \notin DOMAIN notification_channels
     THEN /\ response' = reply(g, "removechannel", administrator, "No Channel Set")
          /\ UNCHANGED <<notification_channels, settings_file>>
     ELSE /\ notification_channels' = DictDel(notification_channels, g)
          /\ settings_file' = save_settings(notification_channels', target_roles)
          /\ response' = reply(g, "removechannel", administrator, "Notifications Disabled")
  /\ UNCHANGED <<target_roles, previous_online, cache, events, lastSend>>

\* (variant: /removechannel forgetting save_settings)
removechannel_command_unsaved(g, administrator) ==
  /\ IF ~administrator
     THEN /\ response' = reply(g, "removechannel", FALSE, "Administrator Needed")
          /\ UNCHANGED <<notification_channels, settings_file>>
     ELSE IF g \notin DOMAIN notification_channels
     THEN /\ response' = reply(g, "removechannel", TRUE, "No Channel Set")
          /\ UNCHANGED <<notification_channels, settings_file>>
     ELSE /\ notification_channels' = DictDel(notification_channels, g)
          /\ UNCHANGED settings_file
          /\ response' = reply(g, "removechannel", TRUE, "Notifications Disabled")
  /\ UNCHANGED <<target_roles, previous_online, cache, events, lastSend>>

\* /removechannel in guild g
removechannel_command(g, administrator) ==
  /\ IF ~administrator
     THEN /\ response' = reply(g, "removechannel", FALSE, "Administrator Needed")
          /\ UNCHANGED <<notification_channels, settings_file>>
     ELSE IF g \notin DOMAIN notification_channels
     THEN /\ response' = reply(g, "removechannel", TRUE, "No Channel Set")
          /\ UNCHANGED <<notification_channels, settings_file>>
     ELSE /\ notification_channels' = DictDel(notification_channels, g)
          /\ settings_file' = save_settings(notification_channels', target_roles)
          /\ response' = reply(g, "removechannel", TRUE, "Notifications Disabled")
  /\ UNCHANGED <<target_roles, previous_online, cache, events, lastSend>>

\* /online in guild g.  The command reads nothing of the invoking user;
\* elevated says whether that user holds Administrator or Manage Roles.
online_command(g, elevated) ==
  /\ LET online_members == get_online_members(g, status) IN
       response' = [guild |-> g, command |-> "online", permitted |-> elevated,
                    title |-> online_title(Len(online_members)),
                    listed |-> listing(online_members, status, 8)]
  /\ UNCHANGED <<config, cache, events, lastSend>>

\* /testnotify in guild g.  channel_found: whether bot.get_channel resolves
\* the stored channel id; sent: whether channel.send got through
testnotify_command(g, manage_roles, channel_found, sent) ==
  /\ IF ~manage_roles
     THEN /\ response' = reply(g, "testnotify", FALSE, "Permission Denied")
          /\ UNCHANGED lastSend
     ELSE IF g \notin DOMAIN notification_channels
     THEN /\ response' = reply(g, "testnotify", TRUE, "No Channel Set")
          /\ UNCHANGED lastSend
     ELSE IF g \notin DOMAIN target_roles
     THEN /\ response' = reply(g, "testnotify", TRUE, "No Role Set")
          /\ UNCHANGED lastSend
     ELSE IF ~channel_found
     THEN /\ response' = reply(g, "testnotify", TRUE, "Channel Not Found")
          /\ UNCHANGED lastSend
     ELSE IF get_role(g, target_roles[g], guild_roles) = None
     THEN /\ response' = reply(g, "testnotify", TRUE, "Role Not Found")
          /\ UNCHANGED lastSend
     ELSE IF ~sent
     THEN /\ response' = reply(g, "testnotify", TRUE, "Error")
          /\ UNCHANGED lastSend
     ELSE /\ lastSend' = [to |-> notification_channels[g],
                          title |-> "NOTIFICATION SYSTEM TEST", listed |-> <<>>]
          /\ response' = reply(g, "testnotify", TRUE, "Test Sent")
  /\ UNCHANGED <<config, cache, events>>

\* /testdm in guild g by `user`: the sample DM goes to the user.  The command
\* reads no permission of the user; elevated as for /online.
testdm_command(g, user, elevated, send_outcome) ==
  /\ ~bot(user)
  /\ IF send_outcome = "Delivered"
     THEN /\ lastSend' = [to |-> user, title |-> "Someone's Online!", listed |-> <<>>]
          /\ response' = reply(g, "testdm", elevated, "Test DM Sent!")
     ELSE IF send_outcome = "Forbidden"
     THEN /\ response' = reply(g, "testdm", elevated, "Cannot Send DM")
          /\ UNCHANGED lastSend
     ELSE /\ response' = reply(g, "testdm", elevated, "Error")
          /\ UNCHANGED lastSend
  /\ UNCHANGED <<config, cache, events>>

\* A role is deleted in its guild: guild.get_role no longer resolves its id.
DeleteRole(role) ==
  /\ role \in guild_roles \cap ChangingRoles
  /\ guild_roles' = guild_roles \ {role}
  /\ UNCHANGED <<config, status, member_roles, fanouts, lastEvent, lastReport,
                 response, lastSend, nEvents>>

\* Events, deliveries and the changes of the target role (the commands as
\* run by users holding Manage Roles; CommandSpec has the other invocations).
Next ==
  \/ \E m \in Members, s \in Status, rs \in SUBSET Roles :
       nEvents < MaxEvents /\ on_member_update(m, s, rs)
  \/ \E m \in Members, s \in Status :
       nEvents < MaxEvents /\ on_presence_update(m, s)
  \/ \E i \in 1..MaxInFlight, o \in SendOutcomes : Deliver(i, o)
  \/ \E g \in Guilds, r \in Roles : setrole_command(g, r, TRUE)
  \/ \E g \in Guilds : removerole_command(g, TRUE)
  \/ \E r \in Roles : DeleteRole(r)

Spec == Init /\ [][Next]_vars

\* -------------------------------------------- a run of several events
\* bot_settings.json as an earlier run left it after `/setrole r1`
ConfiguredFile == save_settings(EmptyDict, DictSet(EmptyDict, "g1", "r1"))

\* OnlineMemberTracker.__init__ with that file in place: load_settings reads
\* the target role
InitConfigured ==
  /\ settings_file = ConfiguredFile
  /\ notification_channels = load_notification_channels(settings_file)
  /\ target_roles = load_target_roles(settings_file)
  /\ previous_online = EmptyDict
  /\ guild_roles = Roles
  /\ status \in InitStatus
  /\ member_roles = InitRoles
  /\ fanouts = <<>>
  /\ lastEvent = NoEvent
  /\ lastReport = NoReport
  /\ response = NoResponse
  /\ lastSend = NoSend
  /\ nEvents = 0

\* statuses the members switch between in such a run
SwitchStatus == {"online", "idle", "offline"}

\* (variant: on_ready taking the bots into previous_online as well)
on_ready_with_bots ==
  /\ previous_online' =
       [g \in (DOMAIN previous_online) \cup Guilds |->
          IF g \in Guilds
          THEN {m \in Range(guild_members(g)) : is_online(status[m])}
          ELSE previous_online[g]]
  /\ UNCHANGED <<target_roles, notification_channels, settings_file, cache,
                 events, response, lastSend>>

\* on_ready: previous_online of every guild is set from the cached statuses
\* (the presence change and the command sync leave the bot's state alone; no
\* task is started: "Periodic updates disabled").
on_ready ==
  /\ previous_online' =
       [g \in (DOMAIN previous_online) \cup Guilds |->
          IF g \in Guilds THEN Range(get_online_members(g, status))
          ELSE previous_online[g]]
  /\ UNCHANGED <<target_roles, notification_channels, settings_file, cache,
                 events, response, lastSend>>

\* One event more than in Spec: the bot gets ready, members go online and
\* offline (either handler is told), and the sends of the fan-outs return or
\* raise.
NextEvents ==
  \/ on_ready
  \/ \E m \in Members, s \in SwitchStatus :
       nEvents < MaxEvents + 1 /\ on_member_update(m, s, member_roles[m])
  \/ \E m \in Members, s \in SwitchStatus :
       nEvents < MaxEvents + 1 /\ on_presence_update(m, s)
  \/ \E i \in 1..MaxInFlight, o \in SendOutcomes : Deliver(i, o)

EventsSpec == InitConfigured /\ [][NextEvents]_vars

\* ------------------------------------- one change, both handlers told
\* The change on_member_update has just handled is dispatched as a presence
\* update as well: on_presence_update runs with the same before and after
\* snapshots of the member (the cache already holds the new status).
on_presence_update_of_same_change ==
  /\ lastEvent.handler = "on_member_update"
  /\ lastEvent.id = nEvents
  /\ LET m == lastEvent.member IN
       /\ status[m] = lastEvent.after
       /\ member_roles[m] = lastEvent.roles_after
       /\ Handle("on_presence_update", m, lastEvent.before, lastEvent.after,
                 lastEvent.roles_before, member_roles,
                 on_presence_update_outcome(lastEvent.before, lastEvent.after,
                                            bot(m), member_roles[m], guild_of(m),
                                            target_roles, guild_roles))
  /\ UNCHANGED <<status, member_roles>>

\* The runs of EventsSpec, and a client that tells both handlers of a change.
NextBothHandlers ==
  \/ on_ready
  \/ \E m \in Members, s \in SwitchStatus :
       nEvents < MaxEvents + 1 /\ on_member_update(m, s, member_roles[m])
  \/ \E m \in Members, s \in SwitchStatus :
       nEvents < MaxEvents + 1 /\ on_presence_update(m, s)
  \/ nEvents < MaxEvents + 1 /\ on_presence_update_of_same_change
  \/ \E i \in 1..MaxInFlight, o \in SendOutcomes : Deliver(i, o)

BothHandlersSpec == InitConfigured /\ [][NextBothHandlers]_vars

\* ------------------------------ a fan-out and what happens meanwhile
\* Members come online (presence updates), members are granted and lose the
\* role (member updates that leave the status alone), /setrole and
\* /removerole are run by users holding Manage Roles, and the sends of the
\* fan-outs return or raise, in any order.
NextMeanwhile ==
  \/ \E m \in Members :
       nEvents < MaxEvents + 1 /\ on_presence_update(m, "online")
  \/ \E m \in Members, rs \in SUBSET Roles :
       nEvents < MaxEvents + 1 /\ on_member_update(m, status[m], rs)
  \/ \E i \in 1..MaxInFlight, o \in SendOutcomes : Deliver(i, o)
  \/ \E g \in Guilds, r \in Roles : setrole_command(g, r, TRUE)
  \/ \E g \in Guilds : removerole_command(g, TRUE)

MeanwhileSpec == InitConfigured /\ [][NextMeanwhile]_vars

\* every send a fan-out awaits returns or raises in the end
FairMeanwhileSpec ==
  MeanwhileSpec
    /\ \A i \in 1..MaxInFlight : WF_vars(\E o \in SendOutcomes : Deliver(i, o))

\* ------------------------------------------- commands and the process
\* The process is stopped and started again: `bot = OnlineMemberTracker()`
\* sets the three dicts to {} and load_settings reads bot_settings.json.
\* Nothing of the old process is left but the file.
Restart ==
  /\ notification_channels' = load_notification_channels(settings_file)
  /\ target_roles' = load_target_roles(settings_file)
  /\ previous_online' = EmptyDict
  /\ fanouts' = <<>>
  /\ lastEvent' = NoEvent
  /\ lastReport' = NoReport
  /\ response' = NoResponse
  /\ lastSend' = NoSend
  /\ UNCHANGED <<settings_file, cache, nEvents>>

\* One iteration of the periodic_update loop, for guild g: the summary of
\* send_online_summary goes to the guild's configured channel if bot.get_channel
\* resolves it.  The loop is declared with @tasks.loop but periodic_update.start()
\* is called nowhere, so this is a step of no specification below.
periodic_update(g, channel_found) ==
  /\ g \in Guilds
  /\ g \in DOMAIN notification_channels
  /\ channel_found
  /\ LET online_members == get_online_members(g, status) IN
       lastSend' = [to |-> notification_channels[g],
                    title |-> summary_title(Len(online_members)),
                    listed |-> listing(online_members, status, 6)]
  /\ UNCHANGED <<config, cache, events, response>>

\* the rosters the commands are run under: u1 in any status, the bot online
Rosters ==
  {[m \in Members |->
      IF m = "u1" THEN s1
      ELSE IF m = "u2" THEN s2
      ELSE IF m = "u3" THEN s3
      ELSE "online"] :
     s1 \in Status, s2 \in {"dnd", "invisible"}, s3 \in {"idle", "offline"}}

\* OnlineMemberTracker.__init__ on a first run, under any of the rosters
InitCommands ==
  /\ settings_file \in InitFiles
  /\ notification_channels = load_notification_channels(settings_file)
  /\ target_roles = load_target_roles(settings_file)
  /\ previous_online = EmptyDict
  /\ guild_roles = Roles
  /\ status \in Rosters
  /\ member_roles = InitRoles
  /\ fanouts = <<>>
  /\ lastEvent = NoEvent
  /\ lastReport = NoReport
  /\ response = NoResponse
  /\ lastSend = NoSend
  /\ nEvents = 0

\* The commands, run by users with and without the permissions, on_ready and
\* restarts of the process.
NextCommands ==
  \/ \E g \in Guilds, c \in Channels, a \in BOOLEAN, p \in BOOLEAN, ok \in BOOLEAN :
       setchannel_command(g, c, a, p, ok)
  \/ \E g \in Guilds, a \in BOOLEAN : removechannel_command(g, a)
  \/ \E g \in Guilds, r \in Roles, p \in BOOLEAN : setrole_command(g, r, p)
  \/ \E g \in Guilds, p \in BOOLEAN : removerole_command(g, p)
  \/ \E g \in Guilds, e \in BOOLEAN : online_command(g, e)
  \/ \E g \in Guilds, p \in BOOLEAN, found \in BOOLEAN, ok \in BOOLEAN :
       testnotify_command(g, p, found, ok)
  \/ \E g \in Guilds, u \in Members, e \in BOOLEAN, o \in SendOutcomes :
       testdm_command(g, u, e, o)
  \/ on_ready
  \/ Restart

CommandSpec == InitCommands /\ [][NextCommands]_vars

\* The event loop runs what is ready to run: on_ready is called once the
\* gateway has sent the guilds.  (Commands wait for a user; no task of the
\* bot runs by itself.)
FairCommandSpec == CommandSpec /\ WF_vars(on_ready)

\* ---------------------------------------------------------- properties
OfflineClass == {"offline", "invisible"}
OnlineClass == {"online", "idle", "dnd"}

\* an event has been handled
Handled == lastEvent.handler # None

\* the fan-outs the state knows of: those in flight and the one finished last
KnownFanouts ==
  Range(fanouts) \cup (IF lastReport.event = 0 THEN {} ELSE {lastReport})

\* those started by the event handled last
LastEventFanouts == {f \in KnownFanouts : f.event = lastEvent.id}

\* the handler of the last event called send_dm_notifications not at all, and
\* no fan-out of that event exists
NoFanout == lastEvent.calls = <<>> /\ LastEventFanouts = {}

\* the last event is one of a non-bot member who holds the guild's target role
\* after the change, the role being configured and resolvable in the guild
ByTargetRoleHolder ==
  /\ Handled
  /\ ~bot(lastEvent.member)
  /\ lastEvent.target # None
  /\ lastEvent.target_exists
  /\ lastEvent.target \in lastEvent.roles_after

\* C1: a status-change event of a non-bot holder of the configured, resolvable
\* target role, from offline or invisible to online, idle or dnd, makes the
\* handler (either one) call send_dm_notifications exactly once, for that
\* member and that role, and at most one fan-out of the event exists.
C1_ComingOnlineStartsOneFanout ==
  (ByTargetRoleHolder /\ lastEvent.before \in OfflineClass
                      /\ lastEvent.after \in OnlineClass)
    => /\ lastEvent.outcome = "Notify"
       /\ lastEvent.calls = <<[member |-> lastEvent.member, role |-> lastEvent.target]>>
       /\ Cardinality(LastEventFanouts) <= 1
       /\ \A f \in LastEventFanouts :
            f.member = lastEvent.member /\ f.role = lastEvent.target

C1_Witness ==
  /\ ByTargetRoleHolder
  /\ lastEvent.handler = "on_member_update"
  /\ lastEvent.before = "invisible" /\ lastEvent.after = "dnd"
  /\ lastEvent.outcome = "Notify"
  /\ Cardinality(LastEventFanouts) = 1

\* C2: every fan-out, hence every DM sent, belongs to an event whose
\* before-status is offline or invisible and whose after-status is online,
\* idle or dnd; the handler calls send_dm_notifications for no other event.
C2_DMOnlyWhenComingOnline ==
  /\ \A f \in KnownFanouts :
       f.before \in OfflineClass /\ f.after \in OnlineClass
  /\ lastEvent.calls # <<>> =>
       lastEvent.before \in OfflineClass /\ lastEvent.after \in OnlineClass

C2_Witness ==
  /\ lastReport.successful_dms > 0
  /\ lastReport.before \in OfflineClass /\ lastReport.after \in OnlineClass

\* C3: an event with before.status = after.status ends at the handler's
\* status check, whatever the bot flag, the roles and the configuration: no
\* call of send_dm_notifications, no fan-out, no DM.
C3_NoStatusChangeNoFanout ==
  (Handled /\ lastEvent.before = lastEvent.after)
    => lastEvent.outcome = "NoStatusChange" /\ NoFanout

C3_Witness ==
  /\ ByTargetRoleHolder
  /\ lastEvent.handler = "on_member_update"
  /\ lastEvent.before = lastEvent.after
  /\ lastEvent.after \in OnlineClass
  /\ NoFanout

\* C4: an event of a bot never starts a fan-out, not even when the bot holds
\* the target role and goes from offline to online.
C4_BotNoFanout ==
  (Handled /\ bot(lastEvent.member))
    => lastEvent.outcome \in {"NoStatusChange", "SkipBot"} /\ NoFanout

C4_Witness ==
  /\ Handled /\ bot(lastEvent.member)
  /\ lastEvent.handler = "on_presence_update"
  /\ lastEvent.target # None /\ lastEvent.target_exists
  /\ lastEvent.target \in lastEvent.roles_after
  /\ lastEvent.before = "offline" /\ lastEvent.after = "online"
  /\ lastEvent.outcome = "SkipBot" /\ NoFanout

\* the step handles an event
EventStep == nEvents' = nEvents + 1

\* C5: an event in a guild that has no target role (never set, or removed by
\* a successful /removerole) starts no fan-out; a fan-out that is started is
\* for the role the guild has at that moment; a successful /removerole leaves
\* the guild without target role and a successful /setrole leaves it with
\* the role given, and nothing else adds or removes a guild's target role.
C5_NoTargetRoleNoFanout ==
  [][/\ (EventStep /\ guild_of(lastEvent'.member) \notin DOMAIN target_roles)
          => (lastEvent'.calls = <<>> /\ fanouts' = fanouts)
     /\ (EventStep /\ lastEvent'.calls # <<>>)
          => /\ guild_of(lastEvent'.member) \in DOMAIN target_roles
             /\ lastEvent'.calls[1].role = target_roles[guild_of(lastEvent'.member)]
     /\ \A g \in Guilds :
          /\ removerole_command(g, TRUE) => g \notin DOMAIN target_roles'
          /\ \A r \in Roles :
               setrole_command(g, r, TRUE)
                 => (g \in DOMAIN target_roles' /\ target_roles'[g] = r)
          /\ (g \in DOMAIN target_roles /\ g \notin DOMAIN target_roles')
               => removerole_command(g, TRUE)
          /\ (g \in DOMAIN target_roles' /\ g \notin DOMAIN target_roles)
               => \E r \in Roles : setrole_command(g, r, TRUE)
    ]_vars

\* a member who would qualify comes online after the target role was removed
C5_Witness ==
  /\ Handled /\ ~bot(lastEvent.member)
  /\ lastEvent.target = None
  /\ response = reply(guild_of(lastEvent.member), "removerole", TRUE, "Role Filter Removed")
  /\ settings_file.exists /\ settings_file.target_roles = EmptyDict
  /\ lastEvent.before \in OfflineClass /\ lastEvent.after \in OnlineClass
  /\ lastEvent.outcome = "NoTargetRole"
  /\ NoFanout

\* C6: an event whose before- and after-status differ and are both among
\* online, idle and dnd starts no fan-out and sends no DM.
C6_SubStatusChangeNoFanout ==
  (Handled /\ lastEvent.before \in OnlineClass /\ lastEvent.after \in OnlineClass
           /\ lastEvent.before # lastEvent.after)
    => NoFanout

C6_Witness ==
  /\ ByTargetRoleHolder
  /\ lastEvent.before = "idle" /\ lastEvent.after = "dnd"
  /\ lastEvent.outcome = "NoAction"
  /\ NoFanout

\* Scenario A: the target role is configured and resolvable, its non-bot
\* holders are u1, u2 and u3, and the last event is u1 going from
\* before_status to online.
ScenarioA(before_status) ==
  /\ Handled
  /\ lastEvent.member = "u1"
  /\ lastEvent.before = before_status /\ lastEvent.after = "online"
  /\ lastEvent.target # None /\ lastEvent.target_exists
  /\ {m \in Members : lastEvent.target \in member_roles[m] /\ ~bot(m)}
       = {"u1", "u2", "u3"}

NotifiesU2U3 ==
  /\ lastEvent.outcome = "Notify"
  /\ Len(lastEvent.calls) = 1
  /\ Range(lastEvent.recipients) = {"u2", "u3"}
  /\ Len(lastEvent.recipients) = 2

\* C7 as stated: in Scenario A with u1 going from idle to online the notifier
\* notifies and the recipients are exactly u2 and u3.
C7_ScenarioA_IdleToOnline == ScenarioA("idle") => NotifiesU2U3

\* C7 amended: in Scenario A with u1 going from offline to online the
\* notifier notifies and the recipients are exactly u2 and u3.
C7_ScenarioA_OfflineToOnline == ScenarioA("offline") => NotifiesU2U3

C7_Witness ==
  /\ ScenarioA("offline")
  /\ lastEvent.handler = "on_presence_update"
  /\ NotifiesU2U3

\* C8: when a non-bot holder of the target role goes from online, idle or dnd
\* to offline or invisible, the handler only logs: send_dm_notifications is
\* not called and no delivery is made.
C8_GoingOfflineLogsOnly ==
  (ByTargetRoleHolder /\ lastEvent.before \in OnlineClass
                      /\ lastEvent.after \in OfflineClass)
    => lastEvent.outcome = "LogOnly" /\ NoFanout

C8_Witness ==
  /\ ByTargetRoleHolder
  /\ lastEvent.handler = "on_presence_update"
  /\ lastEvent.before = "online" /\ lastEvent.after = "offline"
  /\ lastEvent.outcome = "LogOnly"
  /\ NoFanout

\* C9: an event whose member does not hold the configured target role in the
\* after snapshot starts no fan-out, also when the member comes online and
\* also when the member held the role in the before snapshot.
C9_LacksRoleNoFanout ==
  (Handled /\ lastEvent.target # None
           /\ lastEvent.target \notin lastEvent.roles_after)
    => NoFanout

\* the member comes online in the update that takes the target role away
C9_Witness ==
  /\ Handled /\ ~bot(lastEvent.member)
  /\ lastEvent.target # None /\ lastEvent.target_exists
  /\ lastEvent.target \in lastEvent.roles_before
  /\ lastEvent.target \notin lastEvent.roles_after
  /\ lastEvent.before \in OfflineClass /\ lastEvent.after \in OnlineClass
  /\ lastEvent.outcome = "LacksRole"
  /\ NoFanout

\* the target role was configured and resolvable when the step's event was
\* handled, and the event is a non-bot holder of it coming online
QualifyingStep ==
  LET m == lastEvent'.member
      g == guild_of(m)
  IN /\ EventStep
     /\ ~bot(m)
     /\ g \in DOMAIN target_roles
     /\ target_roles[g] \in guild_roles
     /\ target_roles[g] \in member_roles'[m]
     /\ status[m] \in OfflineClass /\ status'[m] \in OnlineClass

\* C10: while the configured target role id does not resolve in the guild,
\* every event ends without fan-out and without DM (at the latest at the
\* handler's role lookup); handling an event never changes the stored target
\* role id; a successful /setrole stores the role given, and once the stored
\* role resolves a qualifying event notifies for it.
C10_UnresolvableRoleNoAction ==
  /\ []((Handled /\ lastEvent.target # None /\ ~lastEvent.target_exists)
          => /\ lastEvent.outcome \in {"NoStatusChange", "SkipBot", "RoleNotFound"}
             /\ NoFanout)
  /\ [][EventStep => UNCHANGED <<target_roles, settings_file>>]_vars
  /\ [][\A g \in Guilds, r \in Roles :
          setrole_command(g, r, TRUE) => (target_roles'[g] = r /\ r \in guild_roles')]_vars
  /\ [][QualifyingStep =>
          /\ lastEvent'.outcome = "Notify"
          /\ lastEvent'.calls[1].role = target_roles[guild_of(lastEvent'.member)]]_vars

\* a holder of the deleted target role comes online and nothing happens; the
\* role id is still stored
C10_Witness ==
  /\ Handled /\ ~bot(lastEvent.member)
  /\ lastEvent.target # None /\ ~lastEvent.target_exists
  /\ lastEvent.target \in lastEvent.roles_after
  /\ lastEvent.before \in OfflineClass /\ lastEvent.after \in OnlineClass
  /\ lastEvent.outcome = "RoleNotFound"
  /\ NoFanout
  /\ guild_of(lastEvent.member) \in DOMAIN target_roles
  /\ target_roles[guild_of(lastEvent.member)] = lastEvent.target

\* ------------------------------------------------- fan-out (C11 - C15)
\* the members a notification for the last event is due to: the holders of the
\* target role when the handler ran, but the member who came online and the bots
HoldersToNotify ==
  {m \in Members : /\ lastEvent.target \in member_roles[m]
                   /\ m # lastEvent.member
                   /\ ~bot(m)}

\* the recipients a fan-out has attempted so far, in order
AttemptedSeq(f) == [i \in 1..Len(f.attempts) |-> f.attempts[i][1]]

Attempted(f) == Range(AttemptedSeq(f))

\* the outcomes of the attempts of a fan-out that returned normally
DeliveredAttempts(f) == {i \in 1..Len(f.attempts) : f.attempts[i][2] = "Delivered"}

\* the fan-out of the last event has been through its whole list
LastEventReported == lastReport.event # 0 /\ lastReport.event = lastEvent.id

\* C11: the recipient list send_dm_notifications computes for an event is, as
\* a set, the holders of the target role at that time without the member who
\* came online and without the bots; the recipients attempted and still to
\* attempt of the event's fan-out are always that set, and once the fan-out
\* has finished all of them have been attempted.
C11_RecipientsAreOtherNonBotHolders ==
  /\ lastEvent.calls # <<>> => Range(lastEvent.recipients) = HoldersToNotify
  /\ \A f \in LastEventFanouts :
       /\ Attempted(f) \cup Range(f.todo) = HoldersToNotify
       /\ f.member \notin Attempted(f) \cup Range(f.todo)
       /\ \A m \in Attempted(f) \cup Range(f.todo) : ~bot(m)
  /\ LastEventReported => Attempted(lastReport) = HoldersToNotify

\* u1 came online under target role r1, which u2, u3 and the bot b1 hold too:
\* the fan-out went to u2 and u3
C11_Witness ==
  /\ LastEventReported
  /\ lastEvent.member = "u1" /\ lastEvent.target = "r1"
  /\ "r1" \in member_roles["b1"] /\ "r1" \in member_roles["u1"]
  /\ Attempted(lastReport) = {"u2", "u3"}

\* C12: the recipients attempted so far followed by those still to attempt
\* are the computed recipient list, which names nobody twice, whatever the
\* attempts' outcomes: no outcome ends the loop early or repeats an attempt,
\* and a finished fan-out has attempted every recipient exactly once.
C12_EachRecipientAttemptedOnce ==
  /\ \A f \in LastEventFanouts : AttemptedSeq(f) \o f.todo = lastEvent.recipients
  /\ \A f \in KnownFanouts :
       \A i, j \in 1..Len(AttemptedSeq(f) \o f.todo) :
         (AttemptedSeq(f) \o f.todo)[i] = (AttemptedSeq(f) \o f.todo)[j] => i = j
  /\ LastEventReported =>
       /\ lastReport.todo = <<>>
       /\ AttemptedSeq(lastReport) = lastEvent.recipients

\* the send to u2 raised an HTTPException, the one to u3 an Exception: both
\* were attempted, once each
C12_Witness ==
  /\ LastEventReported
  /\ lastEvent.recipients = <<"u2", "u3">>
  /\ lastReport.attempts = << <<"u2", "HTTPException">>, <<"u3", "Exception">> >>

\* C13: Scenario D: after a fan-out to u2 and u3 in which the send to u2 raised
\* discord.Forbidden and the send to u3 returned, the summary is 1 sent and 0
\* failed.
C13_ScenarioD_SuppressedNotFailed ==
  (/\ lastReport.event # 0
   /\ lastReport.attempts = << <<"u2", "Forbidden">>, <<"u3", "Delivered">> >>)
    => lastReport.successful_dms = 1 /\ lastReport.failed_dms = 0

\* C14: when nobody but the member who came online and bots holds the target
\* role, send_dm_notifications returns at its emptiness check: the recipient
\* list is empty, no fan-out of the event exists (nothing in flight, no
\* summary), nothing is sent and nothing is counted.
C14_EmptyRecipientsNoSend ==
  (lastEvent.calls # <<>> /\ HoldersToNotify = {})
    => /\ lastEvent.recipients = <<>>
       /\ LastEventFanouts = {}
       /\ ~LastEventReported

\* u3 came online under target role r2, which only u3 and the bot b1 hold
C14_Witness ==
  /\ lastEvent.calls = <<[member |-> "u3", role |-> "r2"]>>
  /\ "r2" \in member_roles["b1"]
  /\ HoldersToNotify = {}
  /\ fanouts = <<>>

\* C15: in the summary of a finished fan-out successful_dms is the number of
\* sends that returned, failed_dms the number of sends that raised, and the
\* two add up to the length of the recipient list.
C15_CountersPartitionAttempts ==
  lastReport.event # 0 =>
    /\ lastReport.successful_dms = Cardinality(DeliveredAttempts(lastReport))
    /\ lastReport.successful_dms + lastReport.failed_dms = Len(lastReport.attempts)
    /\ LastEventReported =>
         lastReport.successful_dms + lastReport.failed_dms = Len(lastEvent.recipients)

\* one send raised discord.Forbidden and one returned: 1 sent, 1 failed
C15_Witness ==
  /\ LastEventReported
  /\ Len(lastEvent.recipients) = 2
  /\ lastReport.attempts[1][2] = "Forbidden"
  /\ lastReport.attempts[2][2] = "Delivered"
  /\ lastReport.successful_dms = 1 /\ lastReport.failed_dms = 1

\* the fan-out finished last belongs to an earlier event than the last one,
\* and some of its sends raised
EarlierFanoutFailed ==
  /\ lastReport.event # 0
  /\ lastReport.event < lastEvent.id
  /\ lastReport.failed_dms > 0

\* C16: an event handled after a fan-out with failed deliveries (some or all)
\* is evaluated like any other: a non-bot holder of the target role coming
\* online makes the handler call send_dm_notifications once, the recipients
\* are the other non-bot holders, and the fan-out starts with the whole list
\* to attempt and its counters at zero; the summary of the failed fan-out and
\* the fan-outs in flight are left as they are.
C16_FailuresDoNotAffectLaterEvents ==
  [][(/\ EventStep
      /\ lastReport.event # 0 /\ lastReport.failed_dms > 0
      /\ ByTargetRoleHolder'
      /\ lastEvent'.before \in OfflineClass /\ lastEvent'.after \in OnlineClass)
       => /\ lastEvent'.outcome = "Notify"
          /\ lastEvent'.calls =
               <<[member |-> lastEvent'.member, role |-> lastEvent'.target]>>
          /\ Range(lastEvent'.recipients) = HoldersToNotify'
          /\ lastReport' = lastReport
          /\ IF HoldersToNotify' = {}
             THEN fanouts' = fanouts
             ELSE /\ Len(fanouts') = Len(fanouts) + 1
                  /\ SubSeq(fanouts', 1, Len(fanouts)) = fanouts
                  /\ fanouts'[Len(fanouts')].event = lastEvent'.id
                  /\ fanouts'[Len(fanouts')].member = lastEvent'.member
                  /\ fanouts'[Len(fanouts')].role = lastEvent'.target
                  /\ fanouts'[Len(fanouts')].todo = lastEvent'.recipients
                  /\ fanouts'[Len(fanouts')].attempts = <<>>
                  /\ fanouts'[Len(fanouts')].successful_dms = 0
                  /\ fanouts'[Len(fanouts')].failed_dms = 0]_vars

\* every send of the first fan-out raised; the member who comes online next
\* is notified for, and the first send of that fan-out has returned
C16_Witness ==
  /\ EarlierFanoutFailed
  /\ lastReport.successful_dms = 0 /\ lastReport.failed_dms = 2
  /\ ByTargetRoleHolder
  /\ lastEvent.before \in OfflineClass /\ lastEvent.after \in OnlineClass
  /\ lastEvent.outcome = "Notify"
  /\ \E f \in LastEventFanouts : f.successful_dms = 1 /\ f.todo # <<>>

\* ------------------------------------------- commands (C17 - C20)
\* the replies that turn a user away for want of a permission
DeniedTitles == {"Permission Denied", "Administrator Needed"}

\* the step has turned the user away and done nothing else
Rejected ==
  /\ response'.title \in DeniedTitles
  /\ UNCHANGED <<config, cache, events, lastSend>>

\* C17 (as claimed): whatever command was run last, if the invoking user held
\* no elevated permission the reply is a permission-denied one.
C17_EveryCommandNeedsPermission ==
  (response.command # None /\ ~response.permitted)
    => response.title \in DeniedTitles /\ response.listed = <<>>

\* C17 (amended): /setchannel and /removechannel by a user without
\* Administrator, and /setrole, /removerole and /testnotify by a user without
\* Manage Roles, are answered with a permission-denied reply and change
\* nothing else: not the maps, not the settings file, and nothing is sent.
C17_GuardedCommandsNeedPermission ==
  /\ [][\A g \in Guilds, c \in Channels, p \in BOOLEAN, ok \in BOOLEAN :
          setchannel_command(g, c, FALSE, p, ok) => Rejected]_vars
  /\ [][\A g \in Guilds : removechannel_command(g, FALSE) => Rejected]_vars
  /\ [][\A g \in Guilds, r \in Roles : setrole_command(g, r, FALSE) => Rejected]_vars
  /\ [][\A g \in Guilds : removerole_command(g, FALSE) => Rejected]_vars
  /\ [][\A g \in Guilds, found \in BOOLEAN, ok \in BOOLEAN :
          testnotify_command(g, FALSE, found, ok) => Rejected]_vars

\* /removechannel by a user without Administrator was turned away: the
\* channel is still set, in memory and in the file
C17_Witness ==
  /\ response = reply("g1", "removechannel", FALSE, "Administrator Needed")
  /\ "g1" \in DOMAIN notification_channels
  /\ load_notification_channels(settings_file) = notification_channels

C19_PeriodicSummaries ==
  \A g \in Guilds :
    <>[](g \in DOMAIN notification_channels)
      => []<><<\E found \in BOOLEAN : periodic_update(g, found)>>_vars

\* the non-bot members of guild g whose status is online, idle or dnd
NonBotOnline(g) ==
  {m \in Range(guild_members(g)) : ~bot(m) /\ status[m] \in OnlineClass}

LastEventCfg ==
  IF lastEvent.target = None THEN EmptyDict
  ELSE DictSet(EmptyDict, guild_of(lastEvent.member), lastEvent.target)

LastEventExisting == IF lastEvent.target_exists THEN {lastEvent.target} ELSE {}

\* C25: on_member_update and on_presence_update decide alike.  On the inputs
\* of the event last handled (before and after status, bot flag, roles of
\* `after`, the guild's target role and whether it resolves) both reach the
\* outcome the handler that ran has reached, with the same call of
\* send_dm_notifications and the same recipients; and in every state, for
\* every member and every status the member could take next, both reach the
\* same outcome under the configuration of that state.
C25_HandlersDecisionEquivalent ==
  /\ Handled =>
       LET m == lastEvent.member
           by_member ==
             on_member_update_outcome(lastEvent.before, lastEvent.after, bot(m),
                                      lastEvent.roles_after, guild_of(m),
                                      LastEventCfg, LastEventExisting)
           by_presence ==
             on_presence_update_outcome(lastEvent.before, lastEvent.after, bot(m),
                                        lastEvent.roles_after, guild_of(m),
                                        LastEventCfg, LastEventExisting)
       IN /\ by_member = by_presence
          /\ lastEvent.outcome = by_member
          /\ lastEvent.outcome = by_presence
          /\ (lastEvent.calls # <<>>) <=> (by_presence = "Notify")
          /\ lastEvent.calls # <<>> =>
               /\ lastEvent.calls = <<[member |-> m, role |-> lastEvent.target]>>
               /\ Range(lastEvent.recipients) = HoldersToNotify
  /\ \A m \in Members, s \in Status :
       on_member_update_outcome(status[m], s, bot(m), member_roles[m],
                                guild_of(m), target_roles, guild_roles)
         = on_presence_update_outcome(status[m], s, bot(m), member_roles[m],
                                      guild_of(m), target_roles, guild_roles)

\* on_member_update has started a fan-out for u1 coming online, on inputs on
\* which on_presence_update notifies as well
C25_Witness ==
  /\ Handled
  /\ lastEvent.handler = "on_member_update"
  /\ lastEvent.member = "u1"
  /\ lastEvent.outcome = "Notify"
  /\ lastEvent.recipients # <<>>
  /\ on_presence_update_outcome(lastEvent.before, lastEvent.after, FALSE,
                                lastEvent.roles_after, "g1", LastEventCfg,
                                LastEventExisting) = "Notify"

\* ------------------------------------------ rejected commands (C28)
\* the step leaves the two configuration maps and bot_settings.json as they are
ConfigurationKept ==
  /\ notification_channels' = notification_channels
  /\ target_roles' = target_roles
  /\ settings_file' = settings_file

\* C28: a rejected configuration command changes nothing.  /setchannel and
\* /removechannel without Administrator, /setrole and /removerole without
\* Manage Roles, /setchannel for a channel the bot cannot send to,
\* /removechannel with no channel set and /removerole with no role set leave
\* notification_channels, target_roles and the settings file as they were.
C28_RejectedCommandChangesNothing ==
  [][/\ \A g \in Guilds, c \in Channels, p \in BOOLEAN, ok \in BOOLEAN :
          setchannel_command(g, c, FALSE, p, ok) => ConfigurationKept
     /\ \A g \in Guilds, c \in Channels, ok \in BOOLEAN :
          setchannel_command(g, c, TRUE, FALSE, ok) => ConfigurationKept
     /\ \A g \in Guilds :
          removechannel_command(g, FALSE) => ConfigurationKept
     /\ \A g \in Guilds :
          (g \notin DOMAIN notification_channels /\ removechannel_command(g, TRUE))
            => ConfigurationKept
     /\ \A g \in Guilds, r \in Roles :
          setrole_command(g, r, FALSE) => ConfigurationKept
     /\ \A g \in Guilds :
          removerole_command(g, FALSE) => ConfigurationKept
     /\ \A g \in Guilds :
          (g \notin DOMAIN target_roles /\ removerole_command(g, TRUE))
            => ConfigurationKept]_vars

\* /setchannel has been refused for a channel the bot cannot send to, in a
\* guild that has a channel and a role set and saved
C28_Witness ==
  /\ response = reply("g1", "setchannel", TRUE, "Cannot Send In Channel")
  /\ "g1" \in DOMAIN notification_channels
  /\ "g1" \in DOMAIN target_roles
  /\ settings_file = save_settings(notification_channels, target_roles)

\* ------------------------------------------------ previous_online (C21, C26)
\* C21 as claimed: once on_ready has run, previous_online[g] is the set of
\* the guild's members with status online, idle or dnd, whatever events have
\* been handled since.
C21_PreviousOnlineTracksStatus ==
  \A g \in DOMAIN previous_online :
    previous_online[g] = {m \in Range(guild_members(g)) : status[m] \in OnlineClass}

\* C21, amended: on_ready sets previous_online[g] to the non-bot members of
\* the guild with status online, idle or dnd at that moment, and no event and
\* no delivery changes it afterwards: it is the snapshot of the last on_ready.
C21_PreviousOnlineIsReadySnapshot ==
  /\ [][on_ready => \A g \in Guilds : previous_online'[g] = NonBotOnline(g)]_vars
  /\ [][~on_ready => previous_online' = previous_online]_vars
  /\ [](\A g \in DOMAIN previous_online : \A m \in previous_online[g] :
          ~bot(m) /\ guild_of(m) = g)

\* on_ready ran while only u2 was online and the bot came online before it;
\* u1 has come online since and previous_online still names u2 alone
C21_Witness ==
  /\ "g1" \in DOMAIN previous_online
  /\ previous_online["g1"] = {"u2"}
  /\ status["b1"] = "online"
  /\ status["u1"] = "online"
  /\ lastEvent.member = "u1" /\ lastEvent.after = "online"

\* the step is a return or an exception of a send of some fan-out
DeliverStep == \E i \in 1..MaxInFlight, o \in SendOutcomes : Deliver(i, o)

\* C26: handling an event, and every delivery of a fan-out, failed or not,
\* leaves target_roles, notification_channels, previous_online and the
\* settings file unchanged; previous_online changes in on_ready only; and a
\* handler notifies exactly on a qualifying event, whatever previous_online
\* holds.
C26_EventsLeaveConfigurationAlone ==
  /\ [][EventStep \/ DeliverStep =>
          /\ target_roles' = target_roles
          /\ notification_channels' = notification_channels
          /\ previous_online' = previous_online
          /\ settings_file' = settings_file]_vars
  /\ [][previous_online' # previous_online => on_ready]_vars
  /\ [][EventStep => ((lastEvent'.calls # <<>>) <=> QualifyingStep)]_vars

\* u2 was online at on_ready, so previous_online names it; it went offline
\* and has come online again: the handler has notified, a send of the fan-out
\* has failed, and previous_online still names u2
C26_Witness ==
  /\ "g1" \in DOMAIN previous_online
  /\ "u2" \in previous_online["g1"]
  /\ lastEvent.id = 2 /\ lastEvent.member = "u2"
  /\ lastEvent.before = "offline" /\ lastEvent.after = "online"
  /\ lastEvent.calls # <<>>
  /\ \E f \in LastEventFanouts : f.failed_dms > 0
  /\ settings_file = ConfiguredFile
  /\ target_roles = load_target_roles(ConfiguredFile)

\* ------------------------------------------- duplicate transitions (C24)
\* C24: with every event carrying the member's cached status as its before
\* status, a member does not trigger two fan-outs without an event in between
\* in which it went from online, idle or dnd to offline or invisible:
\*  - an event that starts a fan-out finds the member offline or invisible and
\*    leaves it online, idle or dnd;
\*  - a member leaves the online statuses only through an event of its own,
\*    from an online to an offline status, and that event starts no fan-out;
\*  - an event of the member that follows its fan-out directly starts none;
\*  - as long as the event that started a fan-out is the last one, the member
\*    is online, idle or dnd.
C24_NoSecondFanoutWhileOnline ==
  /\ [][EventStep =>
          LET m == lastEvent'.member IN
            /\ lastEvent'.before = status[m] /\ lastEvent'.after = status'[m]
            /\ lastEvent'.calls # <<>> =>
                 status[m] \in OfflineClass /\ status'[m] \in OnlineClass]_vars
  /\ [][\A m \in Members :
          (status[m] \in OnlineClass /\ status'[m] \in OfflineClass) =>
            /\ EventStep
            /\ lastEvent'.member = m
            /\ lastEvent'.before = status[m] /\ lastEvent'.after = status'[m]
            /\ lastEvent'.calls = <<>>]_vars
  /\ [][(EventStep /\ lastEvent.calls # <<>> /\ lastEvent'.member = lastEvent.member)
          => lastEvent'.calls = <<>>]_vars
  /\ [](lastEvent.calls # <<>> => status[lastEvent.member] \in OnlineClass)

\* u1 came online as idle and its fan-out is known; its next event, from idle
\* to online, has started none
C24_Witness ==
  /\ lastEvent.id = 2 /\ lastEvent.member = "u1"
  /\ lastEvent.before = "idle" /\ lastEvent.after = "online"
  /\ lastEvent.calls = <<>>
  /\ \E f \in KnownFanouts : f.event = 1 /\ f.member = "u1" /\ f.after = "idle"

\* -------------------------------------- one change, two handlers (C22)
\* the step hands the change of the last event to the other handler: same
\* member, same before and after status, and the cache has the change already
SameChangeStep ==
  /\ EventStep
  /\ lastEvent'.handler # lastEvent.handler
  /\ lastEvent'.member = lastEvent.member
  /\ lastEvent'.before = lastEvent.before
  /\ lastEvent'.after = lastEvent.after
  /\ lastEvent.before # lastEvent.after
  /\ status' = status

\* C22: for one status change of a member no recipient is notified twice,
\* also when the change reaches on_member_update and on_presence_update
\* both: the handler told second does not notify a recipient the first
\* handler's fan-out has in its list.
C22_NoRecipientNotifiedTwice ==
  [][SameChangeStep =>
       Range(lastEvent.recipients) \cap Range(lastEvent'.recipients) = {}]_vars

\* --------------------------------- a fan-out in flight (C23, C27)
\* the recipient list of a fan-out: those attempted, then those to attempt
FanoutList(f) == AttemptedSeq(f) \o f.todo

\* the fan-out of event e is suspended on a send
InFlight(e) == \E i \in 1..Len(fanouts) : fanouts[i].event = e

\* the fan-out of event e has logged its summary
Finished(e) == lastReport.event = e /\ lastReport.todo = <<>>

\* C27: the recipient list of a fan-out is computed once, in the handler's
\* step, from the holders of the role at that moment; a member update that
\* grants or takes the role, a /setrole or /removerole and any other event
\* leave every fan-out in flight as it is, and a delivery leaves the list of
\* its fan-out (attempted, then to attempt) as it was computed.
C27_RecipientListComputedOnce ==
  /\ [][(EventStep /\ lastEvent'.recipients # <<>>) =>
          /\ Len(fanouts') = Len(fanouts) + 1
          /\ FanoutList(fanouts'[Len(fanouts')]) = lastEvent'.recipients
          /\ Range(lastEvent'.recipients) =
               {m \in Members : /\ lastEvent'.target \in member_roles'[m]
                                /\ m # lastEvent'.member
                                /\ ~bot(m)}]_vars
  /\ [][~DeliverStep =>
          \A i \in 1..Len(fanouts) :
            i <= Len(fanouts') /\ fanouts'[i] = fanouts[i]]_vars
  /\ [][DeliverStep =>
          \A i \in 1..Len(fanouts) :
            \/ \E j \in 1..Len(fanouts') :
                 /\ fanouts'[j].event = fanouts[i].event
                 /\ FanoutList(fanouts'[j]) = FanoutList(fanouts[i])
            \/ /\ lastReport'.event = fanouts[i].event
               /\ FanoutList(lastReport') = FanoutList(fanouts[i])]_vars

\* u1 came online while u2 and u3 held r1; since then u3 has lost the role
\* and the guild's target role is r2; u2 has been attempted and u3 is still
\* on the list of the fan-out
C27_Witness ==
  /\ Len(fanouts) = 1
  /\ fanouts[1].member = "u1" /\ fanouts[1].role = "r1"
  /\ AttemptedSeq(fanouts[1]) = <<"u2">>
  /\ fanouts[1].todo = <<"u3">>
  /\ "r1" \notin member_roles["u3"]
  /\ "g1" \in DOMAIN target_roles /\ target_roles["g1"] = "r2"

\* C23: a fan-out, once started, runs to its end whatever is processed while
\* it is suspended: if every send returns or raises in the end, the fan-out
\* of an event finishes; until then it stays in flight, each step leaving
\* its attempts and its list alone or making one more attempt; and when it
\* logs its summary it has attempted every recipient of the list it had.
C23_FanoutRunsToCompletion ==
  /\ \A e \in 1..(MaxEvents + 1) : InFlight(e) ~> Finished(e)
  /\ [][\A i \in 1..Len(fanouts) :
          LET f == fanouts[i] IN
            \/ \E j \in 1..Len(fanouts') :
                 /\ fanouts'[j].event = f.event
                 /\ \/ fanouts'[j] = f
                    \/ /\ Len(fanouts'[j].attempts) = Len(f.attempts) + 1
                       /\ fanouts'[j].todo = Tail(f.todo)
            \/ /\ lastReport'.event = f.event
               /\ lastReport'.todo = <<>>
               /\ Len(f.todo) = 1
               /\ AttemptedSeq(lastReport') = AttemptedSeq(f) \o f.todo]_vars

\* the fan-out for u1 has attempted u2 and u3 and logged its summary, though
\* /removerole has taken the guild's target role away since u1 came online
C23_Witness ==
  /\ Finished(1)
  /\ lastReport.member = "u1" /\ lastReport.role = "r1"
  /\ AttemptedSeq(lastReport) = <<"u2", "u3">>
  /\ lastEvent.id = 1 /\ lastEvent.target = "r1"
  /\ "g1" \notin DOMAIN target_roles
  /\ response = reply("g1", "removerole", TRUE, "Role Filter Removed")

====
